---- MODULE Spec2Model ----
(***************************************************************************)
(* A model of AzureRepo.makecatalogs and the helpers it calls              *)
(* (_process_pkgsinfo, _process_icon_hash, _verify_pkginfo, itemlist,      *)
(* put, delete) of munkilib/munkirepo/AzureRepo.py.                        *)
(*                                                                         *)
(* Python strings are sequences of one-character strings, so that lower(), *)
(* startswith(), basename() and os.path.join() are computed, not assumed.  *)
(* A Python dict is a function whose DOMAIN is its set of keys.  A Python  *)
(* value that may be None is a sequence of length 0 (None) or 1.           *)
(***************************************************************************)
EXTENDS Integers, Sequences, FiniteSets, TLC

\* ------------------------------------------------------------------ bounds
MaxPkgsinfo == 2      \* pkgsinfo blobs in the container
MaxIcons == 2         \* blobs under icons
MaxRuns == 2          \* successive calls of makecatalogs

\* ----------------------------------------------------------------- strings
\* str.lower() on one character (the letters the model's strings use)
LowerChar(c) ==
    CASE c = "A" -> "a" [] c = "B" -> "b" [] c = "L" -> "l"
      [] c = "T" -> "t" [] c = "U" -> "u" [] c = "Z" -> "z"
      [] OTHER -> c

\* str.lower()
lower(s) == [i \in 1..Len(s) |-> LowerChar(s[i])]

\* str.startswith(prefix)
startswith(s, prefix) ==
    /\ Len(s) >= Len(prefix)
    /\ SubSeq(s, 1, Len(prefix)) = prefix

SetMax(S) == CHOOSE x \in S : \A y \in S : y <= x
SetMin(S) == CHOOSE x \in S : \A y \in S : x <= y

\* os.path.basename(p): what follows the last "/"
basename(p) ==
    LET slashes == {i \in 1..Len(p) : p[i] = "/"}
    IN  IF slashes = {} THEN p ELSE SubSeq(p, SetMax(slashes) + 1, Len(p))

\* os.path.join(a, b): b alone when b is absolute, else a "/" b
\* (no second separator when a already ends with one)
join(a, b) ==
    IF b # <<>> /\ b[1] = "/" THEN b
    ELSE IF a = <<>> \/ a[Len(a)] = "/" THEN a \o b
    ELSE a \o <<"/">> \o b

\* os.path.relpath(blob, start) for a blob name below the prefix start
relpath(blob, start) ==
    LET dir == IF start # <<>> /\ start[Len(start)] = "/"
               THEN SubSeq(start, 1, Len(start) - 1) ELSE start
    IN  SubSeq(blob, Len(dir) + 2, Len(blob))

\* x in list
InList(x, list) == \E i \in 1..Len(list) : list[i] = x

\* a value os.path.join() rejects with TypeError (a number, a list, ...)
NonPath == <<"<non-path>">>

\* --------------------------------------------------------------- constants
s_icons == <<"i","c","o","n","s">>
s_pkgsinfo == <<"p","k","g","s","i","n","f","o">>
s_pkgs == <<"p","k","g","s">>
s_pkgs_slash == <<"p","k","g","s","/">>
s_catalogs == <<"c","a","t","a","l","o","g","s">>
s_all == <<"a","l","l">>
s_icon_hashes_plist ==
    <<"_","i","c","o","n","_","h","a","s","h","e","s",".","p","l","i","s","t">>
s_nopkg == <<"n","o","p","k","g">>
s_apple_update_metadata ==
    <<"a","p","p","l","e","_","u","p","d","a","t","e","_","m","e","t","a","d","a","t","a">>
s_AdobeCCPUninstaller ==
    <<"A","d","o","b","e","C","C","P","U","n","i","n","s","t","a","l","l","e","r">>

\* pkginfo keys
k_name == <<"n","a","m","e">>
k_notes == <<"n","o","t","e","s">>
k_metadata ==
    <<"_","m","e","t","a","d","a","t","a">>
k_installer_type ==
    <<"i","n","s","t","a","l","l","e","r","_","t","y","p","e">>
k_PackageCompleteURL ==
    <<"P","a","c","k","a","g","e","C","o","m","p","l","e","t","e","U","R","L">>
k_PackageURL ==
    <<"P","a","c","k","a","g","e","U","R","L">>
k_installer_item_location ==
    <<"i","n","s","t","a","l","l","e","r","_","i","t","e","m","_","l","o","c","a","t","i","o","n">>
k_uninstall_method ==
    <<"u","n","i","n","s","t","a","l","l","_","m","e","t","h","o","d">>
k_uninstaller_item_location ==
    <<"u","n","i","n","s","t","a","l","l","e","r","_","i","t","e","m","_","l","o","c","a","t","i","o","n">>
k_catalogs ==
    <<"c","a","t","a","l","o","g","s">>

\* ------------------------------------------------------------------- dicts
\* dict.get(key): <<value>> or <<>> (None)
get(d, key) == IF key \in DOMAIN d THEN <<d[key]>> ELSE <<>>

\* truth value of dict.get(key) for a string value
truthy(opt) == opt # <<>> /\ opt[1] # <<>>

\* del d[key] for every key of the set keys
del(d, keys) == [k \in (DOMAIN d) \ keys |-> d[k]]

\* an entry of the error report
Message(msg, args) == [msg |-> msg, args |-> args]


\* ------------------------------------------------------ blobs and plists
\* A blob is [name |-> key, data |-> content]; content is
\*   [kind |-> "garbage"]                   bytes that are no plist
\*   [kind |-> "array", value |-> list]     a plist whose root is an array
\*   [kind |-> "dict",  value |-> dict]     a plist whose root is a dict
\*   [kind |-> "bytes", value |-> n]        anything else (icon, installer)
\*   [kind |-> "unreadable"]                whatever it holds, the download
\*                                          of this blob fails
Blob(name, data) == [name |-> name, data |-> data]
Garbage == [kind |-> "garbage", value |-> <<>>]
Unreadable == [kind |-> "unreadable", value |-> <<>>]
PlistArray(list) == [kind |-> "array", value |-> list]
PlistDict(d) == [kind |-> "dict", value |-> d]
Bytes(n) == [kind |-> "bytes", value |-> n]

\* get_blob_client(blob).download_blob().readall()
download_blob(blob) ==
    [raises |-> blob.data.kind = "unreadable", data |-> blob.data]

\* readPlistFromString(data): raises unless data is a plist
readPlistFromString(data) ==
    [raises |-> data.kind \notin {"array", "dict"},
     kind   |-> data.kind,
     value  |-> data.value]

\* hashlib.sha256(icondata).hexdigest()
sha256(icondata) == [sha256 |-> icondata.value]

\* writePlistToString(icons): a plist has no representation of None, the
\* serializer raises on a dict that holds one
writePlistToString_icons(icons) ==
    [raises |-> \E n \in DOMAIN icons : icons[n] = <<>>,
     data   |-> PlistDict([n \in {m \in DOMAIN icons : icons[m] # <<>>}
                              |-> icons[n][1]])]

\* writePlistToString(catalogs[key])
writePlistToString(records) == PlistArray(records)

\* ------------------------------------------------------ _process_pkgsinfo
\* The keys the sanitizing loop deletes: those that start with "_"
PrivateKeys(pkginfo) == {key \in DOMAIN pkginfo : startswith(key, <<"_">>)}

\* if pkginfo.get('notes'): del pkginfo['notes']
StripNotes(pkginfo) ==
    IF truthy(get(pkginfo, k_notes)) THEN del(pkginfo, {k_notes}) ELSE pkginfo

\* _process_pkgsinfo(pkgsinfo_blob): the tuple (pkginfo_ref, pkginfo, error);
\* raises is TRUE when the task ends with an exception instead of a tuple.
process_pkgsinfo(pkgsinfo_blob) ==
    LET pkginfo_ref == basename(pkgsinfo_blob.name)
        download == download_blob(pkgsinfo_blob)
        plist == readPlistFromString(download.data)
    IN  IF download.raises \/ plist.raises
        THEN [raises |-> FALSE, pkginfo_ref |-> <<>>, pkginfo |-> <<>>,
              error |-> <<Message("Unexpected error for", <<pkginfo_ref>>)>>]
        ELSE IF plist.kind # "dict"
        THEN \* a list has no get(): AttributeError leaves the task
             [raises |-> TRUE, pkginfo_ref |-> <<>>, pkginfo |-> <<>>,
              error |-> <<>>]
        ELSE LET stripped == StripNotes(plist.value)
             IN  [raises |-> FALSE,
                  pkginfo_ref |-> <<pkginfo_ref>>,
                  pkginfo |-> <<del(stripped, PrivateKeys(stripped))>>,
                  error |-> IF k_name \notin DOMAIN plist.value
                            THEN <<Message("is missing name", <<pkginfo_ref>>)>>
                            ELSE <<>>]

\* ------------------------------------------------------ _process_icon_hash
\* _process_icon_hash(icon_blob): the tuple (name, icon, error)
process_icon_hash(icon_blob) ==
    LET name == basename(icon_blob.name)
        download == download_blob(icon_blob)
    IN  IF name = s_icon_hashes_plist
        THEN [name |-> <<>>, icon |-> <<>>, error |-> <<>>]
        ELSE IF download.raises
        THEN [name |-> <<name>>, icon |-> <<>>,
              error |-> <<Message("Unexpected error for", <<name>>)>>]
        ELSE [name |-> <<name>>, icon |-> <<sha256(download.data)>>,
              error |-> <<>>]

\* -------------------------------------------------------- _verify_pkginfo
\* the first repo_pkg of pkgs_list equal to path when both are lower-cased:
\* <<repo_pkg>>, or <<>> when the loop ends without a match
CaseInsensitiveMatch(path, pkgs_list) ==
    LET hits == {i \in 1..Len(pkgs_list) : lower(path) = lower(pkgs_list[i])}
    IN  IF hits = {} THEN <<>> ELSE <<pkgs_list[SetMin(hits)]>>

\* CheckInstallerItem without the return False after the missing-item warning
CheckInstallerItem_NoReturn(pkginfo_ref, pkginfo, pkgs_list, errors) ==
    LET installeritempath == pkginfo[k_installer_item_location]
        match == CaseInsensitiveMatch(installeritempath, pkgs_list)
    IN  IF InList(installeritempath, pkgs_list)
        THEN [ok |-> TRUE, errors |-> errors]
        ELSE IF match # <<>>
        THEN [ok |-> TRUE,
              errors |-> Append(errors,
                  Message("refers to installer item with different case",
                          <<pkginfo_ref, installeritempath, match[1]>>))]
        ELSE [ok |-> TRUE,
              errors |-> Append(errors,
                  Message("refers to missing installer item",
                          <<pkginfo_ref, installeritempath>>))]

\* CheckInstallerItem without the break after a case-insensitive match
CheckInstallerItem_NoBreak(pkginfo_ref, pkginfo, pkgs_list, errors) ==
    LET installeritempath == pkginfo[k_installer_item_location]
        hits == SelectSeq(pkgs_list,
                    LAMBDA repo_pkg : lower(installeritempath) = lower(repo_pkg))
    IN  IF InList(installeritempath, pkgs_list)
        THEN [ok |-> TRUE, errors |-> errors]
        ELSE IF hits # <<>>
        THEN [ok |-> TRUE,
              errors |-> errors \o
                  [n \in 1..Len(hits) |->
                      Message("refers to installer item with different case",
                              <<pkginfo_ref, installeritempath, hits[n]>>)]]
        ELSE [ok |-> FALSE,
              errors |-> Append(errors,
                  Message("refers to missing installer item",
                          <<pkginfo_ref, installeritempath>>))]

\* lines 192-212: the existence check of the installer item
\* [ok, errors]: ok is FALSE when _verify_pkginfo returns False here
CheckInstallerItem(pkginfo_ref, pkginfo, pkgs_list, errors) ==
    LET installeritempath == pkginfo[k_installer_item_location]
        match == CaseInsensitiveMatch(installeritempath, pkgs_list)
    IN  IF InList(installeritempath, pkgs_list)
        THEN [ok |-> TRUE, errors |-> errors]
        ELSE IF match # <<>>
        THEN [ok |-> TRUE,
              errors |-> Append(errors,
                  Message("refers to installer item with different case",
                          <<pkginfo_ref, installeritempath, match[1]>>))]
        ELSE [ok |-> FALSE,
              errors |-> Append(errors,
                  Message("refers to missing installer item",
                          <<pkginfo_ref, installeritempath>>))]

\* lines 224-254: the existence check of the uninstaller item
CheckUninstallerItem(pkginfo_ref, pkginfo, pkgs_list, errors) ==
    LET location == pkginfo[k_uninstaller_item_location]
        uninstalleritempath == join(s_pkgs, location)
        match == CaseInsensitiveMatch(uninstalleritempath, pkgs_list)
    IN  IF location = NonPath
        THEN [ok |-> FALSE,
              errors |-> Append(errors,
                  Message("invalid uninstaller_item_location", <<pkginfo_ref>>))]
        ELSE IF InList(uninstalleritempath, pkgs_list)
        THEN [ok |-> TRUE, errors |-> errors]
        ELSE IF match # <<>>
        THEN [ok |-> TRUE,
              errors |-> Append(errors,
                  Message("refers to uninstaller item with different case",
                          <<pkginfo_ref, location, match[1]>>))]
        ELSE [ok |-> FALSE,
              errors |-> Append(errors,
                  Message("refers to missing uninstaller item",
                          <<pkginfo_ref, location>>))]

\* lines 214-257: uninstaller sanity checking
CheckUninstaller(pkginfo_ref, pkginfo, pkgs_list, errors) ==
    IF /\ get(pkginfo, k_uninstall_method) = <<s_AdobeCCPUninstaller>>
       /\ k_uninstaller_item_location \notin DOMAIN pkginfo
    THEN [passed |-> FALSE,
          errors |-> Append(errors,
              Message("is missing uninstaller_item_location", <<pkginfo_ref>>))]
    ELSE IF k_uninstaller_item_location \in DOMAIN pkginfo
    THEN LET r == CheckUninstallerItem(pkginfo_ref, pkginfo, pkgs_list, errors)
         IN  [passed |-> r.ok, errors |-> r.errors]
    ELSE [passed |-> TRUE, errors |-> errors]

\* the list of line 171 without its second element
NoInstallerItemTypes_OnlyNopkg == {<<s_nopkg>>}

\* line 171: the values of pkginfo.get('installer_type') that have no
\* associated installer item
NoInstallerItemTypes == {<<s_nopkg>>, <<s_apple_update_metadata>>}

\* _verify_pkginfo(pkginfo_ref, pkginfo, pkgs_list, errors):
\* [passed |-> the value returned, errors |-> the errors list afterwards]
verify_pkginfo(pkginfo_ref, pkginfo, pkgs_list, errors) ==
    IF get(pkginfo, k_installer_type) \in NoInstallerItemTypes
    THEN [passed |-> TRUE, errors |-> errors]
    ELSE IF \/ truthy(get(pkginfo, k_PackageCompleteURL))
            \/ truthy(get(pkginfo, k_PackageURL))
    THEN [passed |-> TRUE, errors |-> errors]
    ELSE IF k_installer_item_location \notin DOMAIN pkginfo
    THEN [passed |-> FALSE,
          errors |-> Append(errors,
              Message("is missing installer_item_location", <<pkginfo_ref>>))]
    ELSE IF pkginfo[k_installer_item_location] = NonPath
    THEN [passed |-> FALSE,
          errors |-> Append(errors,
              Message("invalid installer_item_location", <<pkginfo_ref>>))]
    ELSE LET r == CheckInstallerItem(pkginfo_ref, pkginfo, pkgs_list, errors)
         IN  IF ~r.ok
             THEN [passed |-> FALSE, errors |-> r.errors]
             ELSE CheckUninstaller(pkginfo_ref, pkginfo, pkgs_list, r.errors)


\* ------------------------------------------------------------ the container
\* list_blobs(name_starts_with=prefix) / list_blob_names(...), in listing order
list_blobs(container, prefix) ==
    SelectSeq(container, LAMBDA b : startswith(b.name, prefix))

\* itemlist(kind) when the listing succeeds
itemlist(container, kind) ==
    LET prefix == IF kind = s_pkgs THEN s_pkgs_slash ELSE kind
        blob_list == list_blobs(container, prefix)
    IN  [n \in 1..Len(blob_list) |-> relpath(blob_list[n].name, prefix)]

\* upload_blob that adds a blob next to the one of the same name
upload_blob_Duplicate(container, name, data) ==
    Append(container, Blob(name, data))

\* upload_blob(name, data, overwrite=True)
upload_blob(container, name, data) ==
    IF \E n \in 1..Len(container) : container[n].name = name
    THEN [n \in 1..Len(container) |->
             IF container[n].name = name THEN Blob(name, data) ELSE container[n]]
    ELSE Append(container, Blob(name, data))

\* delete_blob(name)
delete_blob(container, name) ==
    SelectSeq(container, LAMBDA b : b.name # name)

\* ------------------------------------------------- makecatalogs, aggregation
\* AddToCatalogs with break in place of continue after an empty name
RECURSIVE AddToCatalogs_Break(_, _, _, _)
AddToCatalogs_Break(c, pkginfo_ref, pkginfo, names) ==
    IF names = <<>> THEN c
    ELSE LET catalogname == Head(names)
         IN  IF catalogname = <<>>
             THEN [c EXCEPT !.errors = Append(@,
                      Message("has an empty catalogs array", <<pkginfo_ref>>))]
             ELSE AddToCatalogs_Break(
                      IF catalogname \notin DOMAIN c.catalogs
                      THEN [c EXCEPT
                               !.catalogs = (catalogname :> <<pkginfo>>) @@ @,
                               !.order = Append(@, catalogname)]
                      ELSE [c EXCEPT
                               !.catalogs[catalogname] = Append(@, pkginfo)],
                      pkginfo_ref, pkginfo, Tail(names))

\* AddToCatalogs that treats an empty name as any other name
RECURSIVE AddToCatalogs_NoSkip(_, _, _, _)
AddToCatalogs_NoSkip(c, pkginfo_ref, pkginfo, names) ==
    IF names = <<>> THEN c
    ELSE LET catalogname == Head(names)
             next ==
                 IF catalogname \notin DOMAIN c.catalogs
                 THEN [c EXCEPT
                          !.catalogs = (catalogname :> <<pkginfo>>) @@ @,
                          !.order = Append(@, catalogname)]
                 ELSE [c EXCEPT
                          !.catalogs[catalogname] = Append(@, pkginfo)]
         IN  AddToCatalogs_NoSkip(next, pkginfo_ref, pkginfo, Tail(names))

\* lines 413-421: the loop over pkginfo.get("catalogs", []);
\* c is [catalogs, order, errors], order being the insertion order of the keys
RECURSIVE AddToCatalogs(_, _, _, _)
AddToCatalogs(c, pkginfo_ref, pkginfo, names) ==
    IF names = <<>> THEN c
    ELSE LET catalogname == Head(names)
             next ==
                 IF catalogname = <<>>
                 THEN [c EXCEPT !.errors = Append(@,
                          Message("has an empty catalogs array", <<pkginfo_ref>>))]
                 ELSE IF catalogname \notin DOMAIN c.catalogs
                 THEN [c EXCEPT
                          !.catalogs = (catalogname :> <<pkginfo>>) @@ @,
                          !.order = Append(@, catalogname)]
                 ELSE [c EXCEPT
                          !.catalogs[catalogname] = Append(@, pkginfo)]
         IN  AddToCatalogs(next, pkginfo_ref, pkginfo, Tail(names))

\* lines 426-429: the keys that equal another key when both are lower-cased
DuplicateCatalogs(order) ==
    SelectSeq(order, LAMBDA key :
        \E n \in 1..Len(order) :
            order[n] # key /\ lower(order[n]) = lower(key))

\* lines 410-434: append the pkginfo to the relevant catalogs, then look for
\* catalog names that differ only in case
AddPkginfo(c, pkginfo_ref, pkginfo) ==
    LET names == IF k_catalogs \in DOMAIN pkginfo
                 THEN pkginfo[k_catalogs] ELSE <<>>
        withall == [c EXCEPT !.catalogs[s_all] = Append(@, pkginfo)]
        added == AddToCatalogs(withall, pkginfo_ref, pkginfo, names)
        duplicate_catalogs == DuplicateCatalogs(added.order)
    IN  IF duplicate_catalogs # <<>>
        THEN [added EXCEPT !.errors = Append(@,
                 Message("catalogs with names that differ only by case",
                         duplicate_catalogs))]
        ELSE added

\* lines 397-434: one iteration of the loop over the tuples;
\* [catalogs, order, errors, verdict]: verdict is <<>> when _verify_pkginfo
\* was not called, else <<the value it returned>>
AggregateTuple(c, tuple, pkgs_list, options) ==
    LET e == [c EXCEPT !.errors = @ \o tuple.error]
        none == [catalogs |-> e.catalogs, order |-> e.order,
                 errors |-> e.errors, verdict |-> <<>>]
    IN  IF tuple.pkginfo = <<>> \/ DOMAIN tuple.pkginfo[1] = {}
        THEN none
        ELSE LET pkginfo_ref == tuple.pkginfo_ref[1]
                 pkginfo == tuple.pkginfo[1]
             IN  IF options.skip_payload_check
                 THEN AddPkginfo(e, pkginfo_ref, pkginfo) @@ none
                 ELSE LET v == verify_pkginfo(pkginfo_ref, pkginfo,
                                              pkgs_list, e.errors)
                          checked == [e EXCEPT !.errors = v.errors]
                      IN  IF ~v.passed /\ ~options.force
                          THEN [catalogs |-> e.catalogs, order |-> e.order,
                                errors |-> v.errors, verdict |-> <<FALSE>>]
                          ELSE AddPkginfo(checked, pkginfo_ref, pkginfo)
                                   @@ [verdict |-> <<v.passed>>]


\* ------------------------------------------------------------------- state
VARIABLES
    container,      \* the blobs of the Azure container, in listing order
    options,        \* [force, skip_payload_check]
    pc,             \* where makecatalogs stands
    run,            \* number of the current call of makecatalogs
    errors,         \* errors
    blob_list,      \* blob_list
    pool,           \* pool.map in progress: per task <<>> or <<its result>>
    tuples,         \* tuples
    icons,          \* icons
    pkgs_list,      \* pkgs_list
    catalogs,       \* catalogs
    catalog_order,  \* the keys of catalogs in insertion order
    catalog_list,   \* catalog_list
    i,              \* position of the sequential loop in progress
    raised,         \* what the call raised ("" when nothing)
    published,      \* names under catalogs/ when the call started
    deleted,        \* keys passed to delete() in this call, in order
    written,        \* keys passed to put() in this call, in order
    verdicts,       \* [pkginfo_ref, pkginfo, passed] per _verify_pkginfo call
    failed_items,   \* basenames of the blobs whose download failed in this call
    previous,       \* <<>> or <<the catalog blobs the previous call left>>
    before,         \* the container when the current call started
    v_in,           \* arguments of a lone _verify_pkginfo call
    v_out           \* <<>> or <<its result>>

vars == <<container, options, pc, run, errors, blob_list, pool, tuples, icons,
          pkgs_list, catalogs, catalog_order, catalog_list, i, raised,
          published, deleted, written, verdicts, failed_items, previous,
          before, v_in, v_out>>

locals == <<errors, blob_list, pool, tuples, icons, pkgs_list, catalogs,
            catalog_order, catalog_list, i>>
history == <<published, deleted, written, verdicts, failed_items, previous,
             before>>
lone == <<v_in, v_out>>

\* ------------------------------------------------------------------ inputs
str_a == <<"a">>
str_A == <<"A">>
str_z == <<"z">>
str_t == <<"t">>
str_T == <<"T">>
str_u == <<"u">>
str_old == <<"o","l","d">>
str_n == <<"n">>
str_x == <<"x">>

\* contents a pkgsinfo blob may have
PkgsinfoUniverse == <<
    \* installer item present under another case, catalogs that differ by
    \* case, admin notes and _metadata
    PlistDict((k_name :> str_n) @@ (k_installer_item_location :> str_A)
              @@ (k_catalogs :> <<str_t, str_T>>) @@ (k_notes :> str_x)
              @@ (k_metadata :> str_x)),
    \* installer item present, an empty catalog name before a real one and
    \* another after it, empty notes
    PlistDict((k_name :> str_n) @@ (k_installer_item_location :> str_a)
              @@ (k_catalogs :> <<<<>>, str_t, <<>>>>) @@ (k_notes :> <<>>)),
    \* nopkg with a location that is nowhere; names all, and t twice
    PlistDict((k_name :> str_n) @@ (k_installer_type :> s_nopkg)
              @@ (k_installer_item_location :> str_z)
              @@ (k_catalogs :> <<s_all, str_t, str_t>>)),
    \* no name, installer item missing
    PlistDict((k_installer_item_location :> str_z)
              @@ (k_catalogs :> <<str_T>>)),
    \* not a plist
    Garbage,
    \* a blob whose download fails
    Unreadable,
    \* a plist whose root is an array
    PlistArray(<<>>) >>

Digit == <<"1", "2", "3", "4">>

\* pkgsinfo/p<n>.plist
PkgsinfoName(n) == s_pkgsinfo \o <<"/", "p", Digit[n], ".", "p">>

\* the blobs under icons, of which the container holds a prefix, the
\* manifest of a former build first
IconUniverse == <<
    Blob(s_icons \o <<"/">> \o s_icon_hashes_plist, PlistDict(<<>>)),
    Blob(s_icons \o <<"/", "x">>, Bytes(1)),
    Blob(s_icons \o <<"/", "y">>, Bytes(2)),
    Blob(s_icons \o <<"/", "z">>, Bytes(1)) >>

\* the blobs under pkgs/ : pkgs/a and pkgs/pkgs/u
PkgsBlobs == <<
    Blob(s_pkgs_slash \o str_a, Bytes(0)),
    Blob(s_pkgs_slash \o s_pkgs_slash \o str_u, Bytes(0)) >>

\* catalogs a former build may have left
PublishedUniverse == <<
    <<>>,
    <<Blob(s_catalogs \o <<"/">> \o str_old, PlistArray(<<>>)),
      Blob(s_catalogs \o <<"/">> \o s_all, PlistArray(<<>>)),
      Blob(s_catalogs \o <<"/">> \o str_T, PlistArray(<<>>))>> >>

NoVerify == [pkginfo_ref |-> <<>>, pkginfo |-> <<>>, pkgs_list |-> <<>>,
             errors |-> <<>>]

InitLocals ==
    /\ errors = <<>>
    /\ blob_list = <<>>
    /\ pool = <<>>
    /\ tuples = <<>>
    /\ icons = <<>>
    /\ pkgs_list = <<>>
    /\ catalogs = <<>>
    /\ catalog_order = <<>>
    /\ catalog_list = <<>>
    /\ i = 0
    /\ raised = ""
    /\ published = <<>>
    /\ deleted = <<>>
    /\ written = <<>>
    /\ verdicts = <<>>
    /\ failed_items = {}
    /\ previous = <<>>

Init ==
    /\ \E n \in 0..MaxPkgsinfo, m \in 0..MaxIcons,
          p \in 1..Len(PublishedUniverse) :
         \E content \in [1..n -> 1..Len(PkgsinfoUniverse)],
            unreadable \in SUBSET (2..m) :
            container =
                [k \in 1..m |-> IF k \in unreadable
                                THEN Blob(IconUniverse[k].name, Unreadable)
                                ELSE IconUniverse[k]]
                \o [k \in 1..n |-> Blob(PkgsinfoName(k),
                                        PkgsinfoUniverse[content[k]])]
                \o PkgsBlobs
                \o PublishedUniverse[p]
    /\ options \in [force : BOOLEAN, skip_payload_check : BOOLEAN]
    /\ before = container
    /\ pc = "Idle"
    /\ run = 1
    /\ InitLocals
    /\ v_in = NoVerify
    /\ v_out = <<>>


\* ----------------------------------------------------------- makecatalogs
\* raise(...) of a str, an exception that no except clause of makecatalogs
\* names, or MakeCatalogsError: the call ends by raising
Raise(what) ==
    /\ pc' = "Failed"
    /\ raised' = what

\* lines 346-348: list_blobs(name_starts_with='icons') succeeds
ListIcons ==
    /\ pc = "Idle"
    /\ blob_list' = list_blobs(container, s_icons)
    /\ pool' = [k \in 1..Len(blob_list') |-> <<>>]
    /\ published' = itemlist(container, s_catalogs)
    /\ pc' = "HashingIcons"
    /\ UNCHANGED <<container, options, run, errors, tuples, icons, pkgs_list,
                   catalogs, catalog_order, catalog_list, i, raised, deleted,
                   written, verdicts, failed_items, previous, before, lone>>

\* lines 349-352: the listing of icons fails
ListIconsFails ==
    /\ pc = "Idle"
    /\ published' = itemlist(container, s_catalogs)
    /\ Raise("list icons")
    /\ UNCHANGED <<container, options, run, locals, deleted, written,
                   verdicts, failed_items, previous, before, lone>>

\* one task of pool.map(self._process_icon_hash, blob_list), on a worker
ProcessIconHash(k) ==
    /\ pc = "HashingIcons"
    /\ k \in 1..Len(blob_list)
    /\ pool[k] = <<>>
    /\ pool' = [pool EXCEPT ![k] = <<process_icon_hash(blob_list[k])>>]
    /\ failed_items' = IF download_blob(blob_list[k]).raises
                       THEN failed_items \cup {basename(blob_list[k].name)}
                       ELSE failed_items
    /\ UNCHANGED <<container, options, pc, run, errors, blob_list, tuples,
                   icons, pkgs_list, catalogs, catalog_order, catalog_list, i,
                   raised, published, deleted, written, verdicts, previous,
                   before, lone>>

\* lines 363-367: the loop that fills errors and icons from the tuples
RECURSIVE MergeIcons(_, _)
MergeIcons(m, ts) ==
    IF ts = <<>> THEN m
    ELSE LET t == Head(ts)
             e == m.errors \o t.error
             ic == IF t.name # <<>> THEN (t.name[1] :> t.icon) @@ m.icons
                   ELSE m.icons
         IN  MergeIcons([errors |-> e, icons |-> ic], Tail(ts))

\* JoinIcons without the barrier: the tuples of the tasks that are over are
\* merged while other tasks are still running
JoinIcons_Partial ==
    /\ pc = "HashingIcons"
    /\ LET done == SelectSeq(pool, LAMBDA r : r # <<>>)
       IN  tuples' = [k \in 1..Len(done) |-> done[k][1]]
    /\ LET m == MergeIcons([errors |-> errors, icons |-> icons], tuples')
       IN  /\ errors' = m.errors
           /\ icons' = m.icons
    /\ pool' = <<>>
    /\ pc' = "ListingPkgsinfo"
    /\ UNCHANGED <<container, options, run, blob_list, pkgs_list, catalogs,
                   catalog_order, catalog_list, i, raised, history, lone>>

\* lines 359-367: pool.map returns once every task is done; merge the tuples
JoinIcons ==
    /\ pc = "HashingIcons"
    /\ \A k \in 1..Len(pool) : pool[k] # <<>>
    /\ tuples' = [k \in 1..Len(pool) |-> pool[k][1]]
    /\ LET m == MergeIcons([errors |-> errors, icons |-> icons], tuples')
       IN  /\ errors' = m.errors
           /\ icons' = m.icons
    /\ pool' = <<>>
    /\ pc' = "ListingPkgsinfo"
    /\ UNCHANGED <<container, options, run, blob_list, pkgs_list, catalogs,
                   catalog_order, catalog_list, i, raised, history, lone>>

\* lines 369-373: list_blobs(name_starts_with='pkgsinfo') succeeds
ListPkgsinfo ==
    /\ pc = "ListingPkgsinfo"
    /\ blob_list' = list_blobs(container, s_pkgsinfo)
    /\ pc' = "ListingPkgs"
    /\ UNCHANGED <<container, options, run, errors, pool, tuples, icons,
                   pkgs_list, catalogs, catalog_order, catalog_list, i, raised,
                   history, lone>>

\* the listing of pkgsinfo fails and the call goes on with an empty list
ListPkgsinfoFails_Swallowed ==
    /\ pc = "ListingPkgsinfo"
    /\ blob_list' = <<>>
    /\ raised' = "list pkgsinfo"
    /\ pc' = "ListingPkgs"
    /\ UNCHANGED <<container, options, run, errors, pool, tuples, icons,
                   pkgs_list, catalogs, catalog_order, catalog_list, i,
                   history, lone>>

\* line 373: the listing fails with an AzureError, which is no RepoError
ListPkgsinfoFails ==
    /\ pc = "ListingPkgsinfo"
    /\ Raise("list pkgsinfo")
    /\ UNCHANGED <<container, options, run, locals, history, lone>>

\* lines 378-389: itemlist('pkgs') succeeds; start with catalogs['all'] = []
ListPkgs ==
    /\ pc = "ListingPkgs"
    /\ pkgs_list' = itemlist(container, s_pkgs)
    /\ catalogs' = (s_all :> <<>>)
    /\ catalog_order' = <<s_all>>
    /\ pool' = [k \in 1..Len(blob_list) |-> <<>>]
    /\ pc' = "LoadingPkgsinfo"
    /\ UNCHANGED <<container, options, run, errors, blob_list, tuples, icons,
                   catalog_list, i, raised, history, lone>>

\* lines 268-271: itemlist('pkgs') executes raise('...') on a str
ListPkgsFails ==
    /\ pc = "ListingPkgs"
    /\ Raise("list pkgs")
    /\ UNCHANGED <<container, options, run, locals, history, lone>>

\* one task of pool.map(self._process_pkgsinfo, blob_list), on a worker
ProcessPkgsinfo(k) ==
    /\ pc = "LoadingPkgsinfo"
    /\ k \in 1..Len(blob_list)
    /\ pool[k] = <<>>
    /\ pool' = [pool EXCEPT ![k] = <<process_pkgsinfo(blob_list[k])>>]
    /\ failed_items' = IF download_blob(blob_list[k]).raises
                       THEN failed_items \cup {basename(blob_list[k].name)}
                       ELSE failed_items
    /\ UNCHANGED <<container, options, pc, run, errors, blob_list, tuples,
                   icons, pkgs_list, catalogs, catalog_order, catalog_list, i,
                   raised, published, deleted, written, verdicts, previous,
                   before, lone>>

\* JoinPkgsinfo that takes the tuples in another order than the listing
JoinPkgsinfo_Reversed ==
    /\ pc = "LoadingPkgsinfo"
    /\ \A k \in 1..Len(pool) : pool[k] # <<>>
    /\ \A k \in 1..Len(pool) : ~pool[k][1].raises
    /\ tuples' = [k \in 1..Len(pool) |-> pool[Len(pool) + 1 - k][1]]
    /\ pool' = <<>>
    /\ i' = 1
    /\ pc' = "Aggregating"
    /\ UNCHANGED <<container, options, run, errors, blob_list, icons,
                   pkgs_list, catalogs, catalog_order, catalog_list, raised,
                   history, lone>>

\* lines 392-393: pool.map returns the tuples once every task is done
JoinPkgsinfo ==
    /\ pc = "LoadingPkgsinfo"
    /\ \A k \in 1..Len(pool) : pool[k] # <<>>
    /\ \A k \in 1..Len(pool) : ~pool[k][1].raises
    /\ tuples' = [k \in 1..Len(pool) |-> pool[k][1]]
    /\ pool' = <<>>
    /\ i' = 1
    /\ pc' = "Aggregating"
    /\ UNCHANGED <<container, options, run, errors, blob_list, icons,
                   pkgs_list, catalogs, catalog_order, catalog_list, raised,
                   history, lone>>

\* lines 394-395: a task raised, pool.map raises as soon as that task is
\* over, whatever the other tasks are doing: MakeCatalogsError
JoinPkgsinfoRaises ==
    /\ pc = "LoadingPkgsinfo"
    /\ \E k \in 1..Len(pool) : pool[k] # <<>> /\ pool[k][1].raises
    /\ Raise("pkgsinfo task")
    /\ UNCHANGED <<container, options, run, locals, history, lone>>

\* lines 397-434: one iteration of the loop over the tuples
Aggregate ==
    /\ pc = "Aggregating"
    /\ i <= Len(tuples)
    /\ LET r == AggregateTuple([catalogs |-> catalogs, order |-> catalog_order,
                                errors |-> errors],
                               tuples[i], pkgs_list, options)
       IN  /\ catalogs' = r.catalogs
           /\ catalog_order' = r.order
           /\ errors' = r.errors
           /\ verdicts' = IF r.verdict = <<>> THEN verdicts
                          ELSE Append(verdicts,
                                   [pkginfo_ref |-> tuples[i].pkginfo_ref[1],
                                    pkginfo |-> tuples[i].pkginfo[1],
                                    passed |-> r.verdict[1]])
    /\ i' = i + 1
    /\ UNCHANGED <<container, options, pc, run, blob_list, pool, tuples,
                   icons, pkgs_list, catalog_list, raised, published, deleted,
                   written, failed_items, previous, before, lone>>

\* ListCatalogs that does not wait for the end of the loop over the tuples
ListCatalogs_Early ==
    /\ pc = "Aggregating"
    /\ catalog_list' = itemlist(container, s_catalogs)
    /\ i' = 1
    /\ pc' = "Pruning"
    /\ UNCHANGED <<container, options, run, errors, blob_list, pool, tuples,
                   icons, pkgs_list, catalogs, catalog_order, raised, history,
                   lone>>

\* lines 436-438: itemlist('catalogs') succeeds
ListCatalogs ==
    /\ pc = "Aggregating"
    /\ i > Len(tuples)
    /\ catalog_list' = itemlist(container, s_catalogs)
    /\ i' = 1
    /\ pc' = "Pruning"
    /\ UNCHANGED <<container, options, run, errors, blob_list, pool, tuples,
                   icons, pkgs_list, catalogs, catalog_order, raised, history,
                   lone>>

\* lines 268-271, 439: itemlist('catalogs') executes raise('...') on a str,
\* a TypeError, which except RepoError does not catch
ListCatalogsFails ==
    /\ pc = "Aggregating"
    /\ i > Len(tuples)
    /\ Raise("list catalogs")
    /\ UNCHANGED <<container, options, run, locals, history, lone>>

\* the test of line 442 without its not
IsOrphan_Inverted(catalog_name, cats) == catalog_name \in DOMAIN cats

\* catalog_name not in list(catalogs.keys())
IsOrphan(catalog_name, cats) == catalog_name \notin DOMAIN cats

\* lines 441-448: one iteration of the loop that clears out old catalogs;
\* outcome is what delete_blob does: "ok", "ResourceNotFoundError" (the blob
\* is gone already, delete() prints and returns) or "AzureError" (delete()
\* executes raise('...') on a str, which except RepoError does not catch)
Prune(outcome) ==
    /\ pc = "Pruning"
    /\ i <= Len(catalog_list)
    /\ LET catalog_name == catalog_list[i]
           catalog_ref == join(s_catalogs, catalog_name)
       IN  IF IsOrphan(catalog_name, catalogs)
           THEN /\ deleted' = Append(deleted, catalog_ref)
                /\ IF outcome = "AzureError"
                   THEN /\ Raise("delete")
                        /\ UNCHANGED <<container, i>>
                   ELSE /\ container' = delete_blob(container, catalog_ref)
                        /\ i' = i + 1
                        /\ UNCHANGED <<pc, raised>>
           ELSE /\ outcome = "ok"
                /\ i' = i + 1
                /\ UNCHANGED <<container, deleted, pc, raised>>
    /\ UNCHANGED <<options, run, errors, blob_list, pool, tuples, icons,
                   pkgs_list, catalogs, catalog_order, catalog_list, published,
                   written, verdicts, failed_items, previous, before, lone>>

\* line 450: the loop over catalog_list is over
StartWriting ==
    /\ pc = "Pruning"
    /\ i > Len(catalog_list)
    /\ i' = 1
    /\ pc' = "Writing"
    /\ UNCHANGED <<container, options, run, errors, blob_list, pool, tuples,
                   icons, pkgs_list, catalogs, catalog_order, catalog_list,
                   raised, history, lone>>

\* line 453: catalogs[key] != "" compares a list with a str
IsWritable(records) == TRUE

\* lines 451-464: one iteration of the loop that writes the new catalogs;
\* put_ok is FALSE when upload_blob fails: put() executes raise('...') on a
\* str, which except RepoError does not catch
WriteCatalog(put_ok) ==
    /\ pc = "Writing"
    /\ i <= Len(catalog_order)
    /\ LET key == catalog_order[i]
           catalogpath == join(s_catalogs, key)
       IN  IF IsWritable(catalogs[key])
           THEN /\ written' = Append(written, catalogpath)
                /\ IF put_ok
                   THEN /\ container' = upload_blob(container, catalogpath,
                                            writePlistToString(catalogs[key]))
                        /\ i' = i + 1
                        /\ UNCHANGED <<pc, raised, errors>>
                   ELSE /\ Raise("put")
                        /\ UNCHANGED <<container, i, errors>>
           ELSE /\ put_ok
                /\ errors' = Append(errors,
                       Message("Did not create catalog because it is empty",
                               <<key>>))
                /\ i' = i + 1
                /\ UNCHANGED <<container, written, pc, raised>>
    /\ UNCHANGED <<options, run, blob_list, pool, tuples, icons, pkgs_list,
                   catalogs, catalog_order, catalog_list, published, deleted,
                   verdicts, failed_items, previous, before, lone>>

\* the manifest key without its icons prefix
icon_hashes_plist_Bare == s_icon_hashes_plist

\* line 468: os.path.join("icons", "_icon_hashes.plist")
icon_hashes_plist == join(s_icons, s_icon_hashes_plist)

\* lines 466-478: write icon hashes to the repo, return errors
WriteIconHashes(put_ok) ==
    /\ pc = "Writing"
    /\ i > Len(catalog_order)
    /\ LET icon_hashes == writePlistToString_icons(icons)
       IN  IF DOMAIN icons = {}
           THEN /\ put_ok
                /\ pc' = "Done"
                /\ UNCHANGED <<container, written, raised>>
           ELSE IF icon_hashes.raises
           THEN /\ put_ok
                /\ Raise("writePlistToString")
                /\ UNCHANGED <<container, written>>
           ELSE /\ written' = Append(written, icon_hashes_plist)
                /\ IF put_ok
                   THEN /\ container' = upload_blob(container,
                                            icon_hashes_plist, icon_hashes.data)
                        /\ pc' = "Done"
                        /\ UNCHANGED raised
                   ELSE /\ Raise("put")
                        /\ UNCHANGED container
    /\ UNCHANGED <<options, run, locals, published, deleted, verdicts,
                   failed_items, previous, before, lone>>

\* after a call in which no download failed, makecatalogs is called again on
\* the same container with the same options
Restart ==
    /\ pc = "Done"
    /\ run < MaxRuns
    /\ run' = run + 1
    /\ pc' = "Idle"
    /\ failed_items = {}
    /\ previous' = <<list_blobs(container, s_catalogs)>>
    /\ before' = container
    /\ errors' = <<>>
    /\ blob_list' = <<>>
    /\ pool' = <<>>
    /\ tuples' = <<>>
    /\ icons' = <<>>
    /\ pkgs_list' = <<>>
    /\ catalogs' = <<>>
    /\ catalog_order' = <<>>
    /\ catalog_list' = <<>>
    /\ i' = 0
    /\ published' = <<>>
    /\ deleted' = <<>>
    /\ written' = <<>>
    /\ verdicts' = <<>>
    /\ failed_items' = {}
    /\ UNCHANGED <<container, options, raised, lone>>

Next ==
    \/ ListIcons
    \/ ListIconsFails
    \/ \E k \in 1..MaxIcons : ProcessIconHash(k)
    \/ JoinIcons
    \/ ListPkgsinfo
    \/ ListPkgsinfoFails
    \/ ListPkgs
    \/ ListPkgsFails
    \/ \E k \in 1..MaxPkgsinfo : ProcessPkgsinfo(k)
    \/ JoinPkgsinfo
    \/ JoinPkgsinfoRaises
    \/ Aggregate
    \/ ListCatalogs
    \/ ListCatalogsFails
    \/ \E outcome \in {"ok", "ResourceNotFoundError", "AzureError"} :
          Prune(outcome)
    \/ StartWriting
    \/ \E put_ok \in BOOLEAN : WriteCatalog(put_ok)
    \/ \E put_ok \in BOOLEAN : WriteIconHashes(put_ok)
    \/ Restart

Spec == Init /\ [][Next]_vars


\* --------------------------------------------- _verify_pkginfo on its own
str_ab == <<"a","b">>
str_AB == <<"A","B">>
str_aB == <<"a","B">>
str_Ab == <<"A","b">>
str_zz == <<"z","z">>
str_U == <<"U">>

\* a dict with the key when opt is <<value>>, without it when opt is <<>>
Field(key, opt) == IF opt = <<>> THEN <<>> ELSE (key :> opt[1])

\* the pkgs_list values of the lone calls
PkgsLists == {
    <<>>,
    <<str_ab>>,
    <<str_aB, str_Ab>>,
    <<str_ab, s_pkgs_slash \o str_u>>,
    <<str_Ab, s_pkgs_slash \o str_ab, s_pkgs_slash \o str_u>> }

InitVerify ==
    /\ \E installer_type \in
              {<<>>, <<s_nopkg>>, <<s_apple_update_metadata>>, <<str_x>>},
          complete_url \in {<<>>, <<str_x>>},
          url \in {<<>>, << <<>> >>, <<str_x>>},
          installer_item_location \in
              {<<>>, <<NonPath>>, <<str_ab>>, <<str_AB>>, <<str_zz>>},
          uninstall_method \in {<<>>, <<s_AdobeCCPUninstaller>>, <<str_x>>},
          uninstaller_item_location \in
              {<<>>, <<NonPath>>, <<str_ab>>, <<str_u>>, <<str_U>>, <<str_zz>>},
          list \in PkgsLists,
          prior \in {<<>>, <<Message("earlier", <<>>)>>} :
         v_in = [pkginfo_ref |-> PkgsinfoName(1),
                 pkginfo |->
                     (k_name :> str_n)
                     @@ Field(k_installer_type, installer_type)
                     @@ Field(k_PackageCompleteURL, complete_url)
                     @@ Field(k_PackageURL, url)
                     @@ Field(k_installer_item_location, installer_item_location)
                     @@ Field(k_uninstall_method, uninstall_method)
                     @@ Field(k_uninstaller_item_location,
                              uninstaller_item_location),
                 pkgs_list |-> list,
                 errors |-> prior]
    /\ v_out = <<>>
    /\ container = <<>>
    /\ before = <<>>
    /\ options = [force |-> FALSE, skip_payload_check |-> FALSE]
    /\ pc = "Idle"
    /\ run = 1
    /\ InitLocals

\* verified = self._verify_pkginfo(pkginfo_ref, pkginfo, pkgs_list, errors)
Verify ==
    /\ v_out = <<>>
    /\ v_in # NoVerify
    /\ v_out' = <<verify_pkginfo(v_in.pkginfo_ref, v_in.pkginfo,
                                 v_in.pkgs_list, v_in.errors)>>
    /\ UNCHANGED <<v_in, container, options, pc, run, raised, locals, history>>

NextVerify == Verify

SpecVerify == InitVerify /\ [][NextVerify]_vars


\* ============================================================== properties
Range(seq) == {seq[n] : n \in 1..Len(seq)}
Count(seq, x) == Cardinality({n \in 1..Len(seq) : seq[n] = x})
CountMsg(seq, msg) == Cardinality({n \in 1..Len(seq) : seq[n].msg = msg})

\* the catalogs of the container: their names, and the records of one
StoredNames == Range(itemlist(container, s_catalogs))
StoredCatalog(name) ==
    LET l == list_blobs(container, s_catalogs)
        n == CHOOSE n \in 1..Len(l) : l[n].name = join(s_catalogs, name)
    IN  l[n].data.value

\* the catalog names a record declares
Declared(pkginfo) ==
    IF k_catalogs \in DOMAIN pkginfo THEN Range(pkginfo[k_catalogs]) ELSE {}

\* the record is in some catalog of the container
InSomeCatalog(pkginfo) ==
    \E name \in StoredNames : InList(pkginfo, StoredCatalog(name))

\* _verify_pkginfo returned False for the record in this call of makecatalogs
FailedVerification(pkginfo) ==
    \E n \in 1..Len(verdicts) :
        verdicts[n].pkginfo = pkginfo /\ ~verdicts[n].passed

\* every record of a catalog is in all
NamedWithinAll ==
    \A name \in StoredNames :
        \A n \in 1..Len(StoredCatalog(name)) :
            InList(StoredCatalog(name)[n], StoredCatalog(s_all))

\* without force, and with payload checking, all holds no failed record
AllVerified ==
    (~options.force /\ ~options.skip_payload_check) =>
        \A n \in 1..Len(StoredCatalog(s_all)) :
            ~FailedVerification(StoredCatalog(s_all)[n])

\* C1 as stated: when makecatalogs is done, every record of a catalog is in
\* all, every record of all is in each catalog its catalogs field names, and
\* without force all holds no record that failed verification.
C1_AsStated ==
    pc = "Done" =>
        /\ NamedWithinAll
        /\ \A n \in 1..Len(StoredCatalog(s_all)) :
               \A name \in Declared(StoredCatalog(s_all)[n]) :
                   /\ name \in StoredNames
                   /\ InList(StoredCatalog(s_all)[n], StoredCatalog(name))
        /\ AllVerified

\* C1 amended: when makecatalogs is done, every record of a catalog is in
\* all, every record of all is in each catalog that its catalogs field names
\* with a non-empty name, and without force (payload checking on) all holds
\* no record for which _verify_pkginfo returned False.
C1_CatalogMembership ==
    pc = "Done" =>
        /\ NamedWithinAll
        /\ \A n \in 1..Len(StoredCatalog(s_all)) :
               \A name \in Declared(StoredCatalog(s_all)[n]) \ {<<>>} :
                   /\ name \in StoredNames
                   /\ InList(StoredCatalog(s_all)[n], StoredCatalog(name))
        /\ AllVerified

\* a finished build without force in which one record failed verification
\* and another, which names an empty catalog and catalog t, is in all
C1_Witness ==
    /\ pc = "Done"
    /\ ~options.force /\ ~options.skip_payload_check
    /\ \E n \in 1..Len(verdicts) : ~verdicts[n].passed
    /\ \E n \in 1..Len(StoredCatalog(s_all)) :
           Declared(StoredCatalog(s_all)[n]) = {<<>>, str_t}

\* the record reaches the installer item check of _verify_pkginfo
ReachesInstallerCheck(pkginfo) ==
    /\ get(pkginfo, k_installer_type)
           \notin {<<s_nopkg>>, <<s_apple_update_metadata>>}
    /\ ~truthy(get(pkginfo, k_PackageCompleteURL))
    /\ ~truthy(get(pkginfo, k_PackageURL))

\* the declared installer item is a path with no exact and no
\* case-insensitive match in the list
Unmatched(pkginfo, list) ==
    /\ k_installer_item_location \in DOMAIN pkginfo
    /\ pkginfo[k_installer_item_location] # NonPath
    /\ \A n \in 1..Len(list) :
           lower(list[n]) # lower(pkginfo[k_installer_item_location])

\* the declared installer item matches the list only case-insensitively
CaseMismatch(pkginfo, list) ==
    /\ k_installer_item_location \in DOMAIN pkginfo
    /\ pkginfo[k_installer_item_location] # NonPath
    /\ \A n \in 1..Len(list) :
           list[n] # pkginfo[k_installer_item_location]
    /\ \E n \in 1..Len(list) :
           lower(list[n]) = lower(pkginfo[k_installer_item_location])

\* the records loaded in this call, once the tuples are there
Loaded ==
    IF pc \in {"Aggregating", "Pruning", "Writing", "Done"}
    THEN {n \in 1..Len(tuples) : tuples[n].pkginfo # <<>>}
    ELSE {}

\* what makecatalogs does with an unmatched record once it is done
UnmatchedOutcome(pkginfo) ==
    /\ ~options.force => ~InSomeCatalog(pkginfo)
    /\ options.force =>
           /\ InList(pkginfo, StoredCatalog(s_all))
           /\ \A name \in Declared(pkginfo) \ {<<>>} :
                  /\ name \in StoredNames
                  /\ InList(pkginfo, StoredCatalog(name))

MissingInstallerItem(v) ==
    Message("refers to missing installer item",
            <<v.pkginfo_ref, v.pkginfo[k_installer_item_location]>>)

\* C2 as stated: for every record whose installer_item_location has no
\* match at all, _verify_pkginfo returns False and appends the
\* missing-installer-item warning, and makecatalogs leaves the record out of
\* every catalog without force and puts it into all and its catalogs with it.
C2_AsStated ==
    /\ \A n \in 1..Len(verdicts) :
           Unmatched(verdicts[n].pkginfo, pkgs_list) =>
               /\ ~verdicts[n].passed
               /\ InList(MissingInstallerItem(verdicts[n]), errors)
    /\ pc = "Done" =>
           \A n \in Loaded :
               Unmatched(tuples[n].pkginfo[1], pkgs_list) =>
                   UnmatchedOutcome(tuples[n].pkginfo[1])

\* C2 amended: for every record that reaches the installer item check
\* (installer_type neither nopkg nor apple_update_metadata, no
\* PackageCompleteURL, no PackageURL) and whose installer_item_location is a
\* path with no match at all, _verify_pkginfo returns False and appends the
\* missing-installer-item warning; with payload checking on, makecatalogs
\* leaves the record out of every catalog without force, and with force puts
\* it into all and into the catalogs it names with a non-empty name.
C2_MissingInstallerItem ==
    /\ \A n \in 1..Len(verdicts) :
           (/\ ReachesInstallerCheck(verdicts[n].pkginfo)
            /\ Unmatched(verdicts[n].pkginfo, pkgs_list)) =>
               /\ ~verdicts[n].passed
               /\ InList(MissingInstallerItem(verdicts[n]), errors)
    /\ (pc = "Done" /\ ~options.skip_payload_check) =>
           \A n \in Loaded :
               (/\ ReachesInstallerCheck(tuples[n].pkginfo[1])
                /\ Unmatched(tuples[n].pkginfo[1], pkgs_list)) =>
                   UnmatchedOutcome(tuples[n].pkginfo[1])

\* a finished build with force in which a record that reached the check with
\* an unmatched installer item was verified, and is in all
C2_Witness ==
    /\ pc = "Done"
    /\ options.force /\ ~options.skip_payload_check
    /\ \E n \in 1..Len(verdicts) :
           /\ ReachesInstallerCheck(verdicts[n].pkginfo)
           /\ Unmatched(verdicts[n].pkginfo, pkgs_list)
           /\ ~verdicts[n].passed
           /\ InList(verdicts[n].pkginfo, StoredCatalog(s_all))


\* what the lone _verify_pkginfo call appended to errors
Appended ==
    SubSeq(v_out[1].errors, Len(v_in.errors) + 1, Len(v_out[1].errors))

CaseWarnings ==
    CountMsg(Appended, "refers to installer item with different case")
    + CountMsg(Appended, "refers to uninstaller item with different case")

\* C3 as stated: for every record whose installer_item_location matches the
\* list only case-insensitively, _verify_pkginfo returns True and appends
\* exactly one case-mismatch warning.
C3_AsStated ==
    (v_out # <<>> /\ CaseMismatch(v_in.pkginfo, v_in.pkgs_list)) =>
        /\ v_out[1].passed
        /\ CaseWarnings = 1

\* the record declares no uninstaller item and no method that needs one
NoUninstaller(pkginfo) ==
    /\ k_uninstaller_item_location \notin DOMAIN pkginfo
    /\ get(pkginfo, k_uninstall_method) # <<s_AdobeCCPUninstaller>>

\* C3 amended: for every record that reaches the installer item check
\* (installer_type neither nopkg nor apple_update_metadata, no
\* PackageCompleteURL, no PackageURL) and whose installer_item_location
\* matches the list only case-insensitively, _verify_pkginfo appends exactly
\* one installer case-mismatch warning, naming the first matching path, and
\* no missing-installer-item warning, also when several paths match; when the
\* record declares no uninstaller (no uninstaller_item_location, uninstall
\* method not AdobeCCPUninstaller) it returns True and appends nothing else.
C3_CaseMismatchWarning ==
    (/\ v_out # <<>>
     /\ ReachesInstallerCheck(v_in.pkginfo)
     /\ CaseMismatch(v_in.pkginfo, v_in.pkgs_list)) =>
        /\ CountMsg(Appended,
                    "refers to installer item with different case") = 1
        /\ CountMsg(Appended, "refers to missing installer item") = 0
        /\ Appended[1] =
               Message("refers to installer item with different case",
                       <<v_in.pkginfo_ref,
                         v_in.pkginfo[k_installer_item_location],
                         CaseInsensitiveMatch(
                             v_in.pkginfo[k_installer_item_location],
                             v_in.pkgs_list)[1]>>)
        /\ SubSeq(v_out[1].errors, 1, Len(v_in.errors)) = v_in.errors
        /\ NoUninstaller(v_in.pkginfo) =>
               /\ v_out[1].passed
               /\ Len(Appended) = 1

\* a call on a record without uninstaller whose installer item ab matches
\* both aB and Ab of the list case-insensitively, and which passed
C3_Witness ==
    /\ v_out # <<>>
    /\ ReachesInstallerCheck(v_in.pkginfo)
    /\ NoUninstaller(v_in.pkginfo)
    /\ get(v_in.pkginfo, k_installer_item_location) = <<str_ab>>
    /\ v_in.pkgs_list = <<str_aB, str_Ab>>
    /\ v_out[1].passed

\* C4: for every record whose installer_type is nopkg or
\* apple_update_metadata, _verify_pkginfo returns True and appends no
\* message, whatever installer_item_location, uninstall_method and
\* uninstaller_item_location are.
C4_NoInstallerItemTypesPass ==
    (/\ v_out # <<>>
     /\ get(v_in.pkginfo, k_installer_type)
            \in {<<s_nopkg>>, <<s_apple_update_metadata>>}) =>
        /\ v_out[1].passed
        /\ v_out[1].errors = v_in.errors

\* a call on an apple_update_metadata record with an unmatched installer
\* item and AdobeCCPUninstaller without uninstaller item, which passed
C4_Witness ==
    /\ v_out # <<>>
    /\ get(v_in.pkginfo, k_installer_type) = <<s_apple_update_metadata>>
    /\ Unmatched(v_in.pkginfo, v_in.pkgs_list)
    /\ get(v_in.pkginfo, k_uninstall_method) = <<s_AdobeCCPUninstaller>>
    /\ k_uninstaller_item_location \notin DOMAIN v_in.pkginfo
    /\ v_out[1].passed


\* the record has no key notes and no key that starts with "_"
Sanitized(pkginfo) ==
    /\ k_notes \notin DOMAIN pkginfo
    /\ \A key \in DOMAIN pkginfo : ~startswith(key, <<"_">>)

\* C5: every record _process_pkgsinfo returns has no key notes, whatever its
\* value, and no key that starts with "_"; so has every record of a catalog.
C5_Sanitized ==
    /\ \A n \in Loaded : Sanitized(tuples[n].pkginfo[1])
    /\ \A key \in DOMAIN catalogs :
           \A n \in 1..Len(catalogs[key]) : Sanitized(catalogs[key][n])

DuplicateWarning == "catalogs with names that differ only by case"

\* C6: when two names of the computed catalogs differ only by case, a
\* finished build has exactly one duplicate-name warning in its report,
\* however many records followed the collision; the warning lists both
\* names, and both catalogs are in the container.
C6_OneDuplicateWarning ==
    (pc = "Done" /\ DuplicateCatalogs(catalog_order) # <<>>) =>
        /\ CountMsg(errors, DuplicateWarning) = 1
        /\ \A n \in 1..Len(errors) :
               errors[n].msg = DuplicateWarning =>
                   Range(errors[n].args) = Range(DuplicateCatalogs(catalog_order))
        /\ Range(DuplicateCatalogs(catalog_order)) \subseteq StoredNames

\* C7: in a call of makecatalogs that returns, every catalog that was in the
\* container when the call started and is not among the new catalogs got
\* exactly one delete, no new catalog was ever deleted, every new catalog got
\* exactly one put, to catalogs/<name>, and the container ends with exactly
\* one blob per new catalog, holding its records.
C7_PruneAndOverwrite ==
    /\ \A name \in DOMAIN catalogs :
           Count(deleted, join(s_catalogs, name)) = 0
    /\ pc = "Done" =>
           /\ \A name \in Range(published) \ DOMAIN catalogs :
                  Count(deleted, join(s_catalogs, name)) = 1
           /\ \A name \in DOMAIN catalogs :
                  Count(written, join(s_catalogs, name)) = 1
           /\ StoredNames = DOMAIN catalogs
           /\ Len(list_blobs(container, s_catalogs)) = Cardinality(DOMAIN catalogs)
           /\ \A name \in DOMAIN catalogs :
                  StoredCatalog(name) = catalogs[name]

\* a finished build that deleted catalogs/old and overwrote catalogs/T
C7_Witness ==
    /\ pc = "Done"
    /\ str_old \in Range(published)
    /\ str_T \in Range(published)
    /\ str_T \in DOMAIN catalogs
    /\ deleted = <<join(s_catalogs, str_old)>>

\* C8: when makecatalogs has run twice in succession with the same options,
\* no blob of pkgsinfo, pkgs or icons changed and no download failed, the
\* catalogs of the container after the second call are those after the
\* first, and the second call made no delete.
C8_Idempotent ==
    (/\ pc = "Done"
     /\ previous # <<>>
     /\ failed_items = {}) =>
        /\ list_blobs(container, s_catalogs) = previous[1]
        /\ deleted = <<>>

\* a second call that finished after a first call which had left three
\* catalogs, neither call with a failed download
C8_Witness ==
    /\ pc = "Done"
    /\ run = 2
    /\ previous # <<>>
    /\ failed_items = {}
    /\ Len(previous[1]) = 3
    /\ written # <<>>

\* C9: a catalog that has no record after the aggregation is not written by
\* makecatalogs, and the report has a "Did not create catalog ... because it
\* is empty" warning for it.
C9_EmptyCatalogNotWritten ==
    pc = "Done" =>
        \A key \in DOMAIN catalogs :
            catalogs[key] = <<>> =>
                /\ Count(written, join(s_catalogs, key)) = 0
                /\ InList(Message("Did not create catalog because it is empty",
                                  <<key>>), errors)

\* C10: a blob that cannot be downloaded or parsed, or a record that fails
\* verification, never makes makecatalogs raise: the call does not end by
\* raising what such an item left behind, and a call that returns has a
\* message in its report for every blob whose download failed.
C10_ItemFailuresNotFatal ==
    /\ pc = "Failed" => raised # "writePlistToString"
    /\ pc = "Done" =>
           \A item \in failed_items :
               InList(Message("Unexpected error for", <<item>>), errors)


\* C11: a delete of an orphaned catalog that fails, or a put of a catalog or
\* of the icon-hash manifest that fails with a connectivity error, never
\* makes makecatalogs raise: no call ends by raising out of delete() or put().
C11_StoreFailureNotFatal ==
    pc = "Failed" => raised \notin {"delete", "put"}

\* C12: a failure of itemlist('catalogs') never makes makecatalogs raise: the
\* call goes on with an empty catalog_list.
C12_CatalogListingFailureTolerated ==
    pc = "Failed" => raised # "list catalogs"

ListingFailures == {"list icons", "list pkgsinfo", "list pkgs"}

\* C13: when the listing of icons, of pkgsinfo or of pkgs has failed, the
\* call has ended by raising, it has issued no put and no delete, and the
\* container is what it was when the call started.
C13_ListingFailureAborts ==
    raised \in ListingFailures =>
        /\ pc = "Failed"
        /\ deleted = <<>>
        /\ written = <<>>
        /\ container = before

\* a call that raised at the listing of pkgsinfo, after it had hashed an
\* icon, on a container that holds three catalogs of a former build
C13_Witness ==
    /\ pc = "Failed"
    /\ raised = "list pkgsinfo"
    /\ Len(published) = 3
    /\ DOMAIN icons # {}
    /\ list_blobs(container, s_catalogs) = PublishedUniverse[2]


\* the record got past the installer item check of _verify_pkginfo: its
\* installer_item_location is in the list, exactly or case-insensitively
PassedInstallerCheck(pkginfo, list) ==
    /\ ReachesInstallerCheck(pkginfo)
    /\ k_installer_item_location \in DOMAIN pkginfo
    /\ pkginfo[k_installer_item_location] # NonPath
    /\ CaseInsensitiveMatch(pkginfo[k_installer_item_location], list) # <<>>

\* the messages about the uninstaller item that the lone call appended
UninstallerMessages ==
    SelectSeq(Appended, LAMBDA m :
        m.msg \in {"refers to uninstaller item with different case",
                   "refers to missing uninstaller item",
                   "invalid uninstaller_item_location",
                   "is missing uninstaller_item_location"})

\* C14: for a record that passed the installer check and has an
\* uninstaller_item_location that is a path, _verify_pkginfo looks the
\* location up in pkgs_list as it does the installer's: it returns True with
\* no uninstaller message when the location is in the list, True with one
\* case-mismatch warning when it is there under another case only, False
\* with the missing-uninstaller-item warning when it is not there at all.
C14_UninstallerSameCheck ==
    (/\ v_out # <<>>
     /\ PassedInstallerCheck(v_in.pkginfo, v_in.pkgs_list)
     /\ k_uninstaller_item_location \in DOMAIN v_in.pkginfo
     /\ v_in.pkginfo[k_uninstaller_item_location] # NonPath) =>
        LET location == v_in.pkginfo[k_uninstaller_item_location]
            match == CaseInsensitiveMatch(location, v_in.pkgs_list)
        IN  IF InList(location, v_in.pkgs_list)
            THEN /\ v_out[1].passed
                 /\ UninstallerMessages = <<>>
            ELSE IF match # <<>>
            THEN /\ v_out[1].passed
                 /\ UninstallerMessages =
                        <<Message("refers to uninstaller item with different case",
                                  <<v_in.pkginfo_ref, location, match[1]>>)>>
            ELSE /\ ~v_out[1].passed
                 /\ UninstallerMessages =
                        <<Message("refers to missing uninstaller item",
                                  <<v_in.pkginfo_ref, location>>)>>


\* the icon blobs of the container the call started with, manifest excluded
IconBlobs ==
    SelectSeq(list_blobs(before, s_icons),
              LAMBDA b : basename(b.name) # s_icon_hashes_plist)

\* the loop of lines 363-367 has run in this call
IconsMerged ==
    pc \notin {"Idle", "HashingIcons"} /\ raised # "list icons"

\* C15: once the icon tuples are merged, icons has no key for an icon whose
\* download failed and the report has the error string of that icon, while
\* every other icon has its digest in icons.
C15_FailedIconHasNoEntry ==
    IconsMerged =>
        \A n \in 1..Len(IconBlobs) :
            LET name == basename(IconBlobs[n].name)
            IN  IF download_blob(IconBlobs[n]).raises
                THEN /\ name \notin DOMAIN icons
                     /\ InList(Message("Unexpected error for", <<name>>), errors)
                ELSE /\ name \in DOMAIN icons
                     /\ icons[name] = <<sha256(IconBlobs[n].data)>>


\* what the merge loop of lines 363-367 makes of the icon tuples
MergedIcons == MergeIcons([errors |-> <<>>, icons |-> <<>>], tuples)

\* C16: while the icon tasks run nothing is merged: errors and icons are
\* empty; once they are merged there is one tuple per blob under icons.
\* While the pkgsinfo tasks run, errors and icons are what the merge of the
\* icon tuples left, catalogs is {'all': []}, no record is verified, nothing
\* is deleted or written; once the aggregation has started there is one
\* tuple per pkgsinfo blob, the result of its task.
C16_FullBarrier ==
    /\ pc = "HashingIcons" =>
           /\ errors = <<>>
           /\ DOMAIN icons = {}
           /\ tuples = <<>>
    /\ pc = "ListingPkgsinfo" =>
           /\ Len(tuples) = Len(blob_list)
           /\ blob_list = list_blobs(before, s_icons)
    /\ pc \in {"ListingPkgsinfo", "ListingPkgs", "LoadingPkgsinfo"} =>
           /\ [errors |-> errors, icons |-> icons] = MergedIcons
           /\ verdicts = <<>>
           /\ deleted = <<>>
           /\ written = <<>>
           /\ container = before
    /\ pc = "LoadingPkgsinfo" =>
           /\ catalogs = (s_all :> <<>>)
           /\ catalog_order = <<s_all>>
    /\ pc = "Aggregating" =>
           /\ blob_list = list_blobs(before, s_pkgsinfo)
           /\ tuples = [k \in 1..Len(blob_list) |->
                           process_pkgsinfo(blob_list[k])]
    /\ pc \in {"Aggregating", "Pruning", "Writing", "Done"} =>
           Len(tuples) = Len(blob_list)

\* the second pkgsinfo task is over while the first one still runs, after
\* the digest of an icon has been merged
C16_Witness ==
    /\ pc = "LoadingPkgsinfo"
    /\ Len(pool) = 2
    /\ pool[1] = <<>>
    /\ pool[2] # <<>>
    /\ DOMAIN icons # {}


\* the blobs that are neither a catalog nor the icon-hash manifest: those
\* under pkgsinfo/ and pkgs/ and the icons
Assets(blobs) ==
    SelectSeq(blobs, LAMBDA b :
        /\ ~startswith(b.name, s_catalogs \o <<"/">>)
        /\ b.name # s_icons \o <<"/">> \o s_icon_hashes_plist)

StageRank(stage) ==
    CASE stage = "Idle" -> 0
      [] stage = "HashingIcons" -> 1
      [] stage = "ListingPkgsinfo" -> 2
      [] stage = "ListingPkgs" -> 3
      [] stage = "LoadingPkgsinfo" -> 4
      [] stage = "Aggregating" -> 5
      [] stage = "Pruning" -> 6
      [] stage = "Writing" -> 7
      [] stage = "Done" -> 8
      [] stage = "Failed" -> 9

ManifestKey == s_icons \o <<"/">> \o s_icon_hashes_plist

\* what C18 says of one step of a call
StageOrderStep ==
    \* within a call the stage never goes back, and moves one stage at a time
    /\ run' = run =>
           \/ pc' = pc
           \/ pc' = "Failed"
           \/ StageRank(pc') = StageRank(pc) + 1
    \* the next call starts only when this one has returned
    /\ run' # run => pc = "Done" /\ pc' = "Idle"
    \* the pkgsinfo tasks start after every icon task is over and merged
    /\ (pc' = "LoadingPkgsinfo" /\ pool' # pool) =>
           /\ Len(tuples) = Len(list_blobs(before, s_icons))
           /\ DOMAIN icons =
                  {basename(b.name) : b \in Range(list_blobs(before, s_icons))}
                      \ {s_icon_hashes_plist}
    \* the loop over the tuples is over when the aggregation stage is left
    /\ (pc = "Aggregating" /\ pc' # "Aggregating") => i > Len(tuples)
    \* a delete is made in the pruning stage, before any put
    /\ (run' = run /\ deleted' # deleted) =>
           /\ pc = "Pruning"
           /\ written = <<>>
    \* the loop over catalog_list is over when the first put is made
    /\ (pc = "Pruning" /\ pc' = "Writing") => i > Len(catalog_list)
    \* a put is made in the writing stage, after the last delete, and the
    \* put of the manifest is the last one, after a put for every catalog
    /\ (run' = run /\ written' # written) =>
           /\ pc = "Writing"
           /\ deleted' = deleted
           /\ ManifestKey \notin Range(written)
           /\ written'[Len(written')] = ManifestKey =>
                  \A name \in DOMAIN catalogs :
                      Count(written, s_catalogs \o <<"/">> \o name) = 1

\* C18: in every call the stages come in the order Idle, HashingIcons,
\* ListingPkgsinfo, ListingPkgs, LoadingPkgsinfo, Aggregating, Pruning,
\* Writing, Done and none is entered twice; the icon tasks are over before
\* a pkgsinfo task starts, every tuple is aggregated before the first
\* delete, every delete comes before the first put, and the put of the
\* manifest comes after the puts of all catalogs.
C18_StageOrder == [][StageOrderStep]_vars

\* a finished call that loaded two records, made a delete, and wrote
\* catalogs and then the manifest
C18_Witness ==
    /\ pc = "Done"
    /\ Len(tuples) = 2
    /\ deleted # <<>>
    /\ Len(written) >= 3
    /\ written[Len(written)] = ManifestKey
    /\ Len(verdicts) = 2


\* lines 397-434 as one sequential loop over the tuples
RECURSIVE AggregateAll(_, _, _, _)
AggregateAll(c, ts, list, opts) ==
    IF ts = <<>> THEN c
    ELSE LET r == AggregateTuple(c, Head(ts), list, opts)
         IN  AggregateAll([catalogs |-> r.catalogs, order |-> r.order,
                           errors |-> r.errors],
                          Tail(ts), list, opts)

\* icons and errors after line 367, from the blobs in listing order
SequentialIcons ==
    LET l == list_blobs(before, s_icons)
    IN  MergeIcons([errors |-> <<>>, icons |-> <<>>],
                   [k \in 1..Len(l) |-> process_icon_hash(l[k])])

\* catalogs, their insertion order and errors after line 434, from the
\* blobs in listing order
SequentialCatalogs ==
    LET l == list_blobs(before, s_pkgsinfo)
    IN  AggregateAll([catalogs |-> (s_all :> <<>>), order |-> <<s_all>>,
                      errors |-> SequentialIcons.errors],
                     [k \in 1..Len(l) |-> process_pkgsinfo(l[k])],
                     itemlist(before, s_pkgs), options)

\* C19: whatever the order in which the tasks of the two pools end, icons
\* and errors after the merge, and catalogs, the order of their keys, the
\* order of the records in each and errors after the aggregation, are what
\* one sequential pass over the blobs in listing order computes from the
\* container and the options; a call that returns has stored these catalogs
\* and returns these errors.
C19_OutcomeIndependentOfInterleaving ==
    /\ pc = "ListingPkgsinfo" =>
           [errors |-> errors, icons |-> icons] = SequentialIcons
    /\ pc = "Done" =>
           /\ icons = SequentialIcons.icons
           /\ [catalogs |-> catalogs, order |-> catalog_order,
               errors |-> errors] = SequentialCatalogs
           /\ StoredNames = DOMAIN catalogs
           /\ \A name \in DOMAIN catalogs :
                  StoredCatalog(name) = catalogs[name]

\* a call that returned after two pkgsinfo tasks with different results,
\* each of which left messages in the report, and an icon task
C19_Witness ==
    /\ pc = "Done"
    /\ Len(tuples) = 2
    /\ tuples[1] # tuples[2]
    /\ tuples[1].pkginfo # <<>>
    /\ tuples[2].pkginfo # <<>>
    /\ Len(catalogs[s_all]) = 2
    /\ catalogs[s_all][1] # catalogs[s_all][2]
    /\ Len(errors) >= 2
    /\ DOMAIN icons # {}


\* the value of pkginfo.get("catalogs", [])
CatalogNames(pkginfo) ==
    IF k_catalogs \in DOMAIN pkginfo THEN pkginfo[k_catalogs] ELSE <<>>

\* the aggregation loop got past the verification with tuple n: payload
\* checking is off, or force is on, or _verify_pkginfo returned True
Admitted(n) ==
    /\ DOMAIN tuples[n].pkginfo[1] # {}
    /\ \/ options.skip_payload_check
       \/ options.force
       \/ \E m \in 1..Len(verdicts) :
              /\ verdicts[m].pkginfo_ref = tuples[n].pkginfo_ref[1]
              /\ verdicts[m].passed

EmptyCatalogsWarning(pkginfo_ref) ==
    Message("has an empty catalogs array", <<pkginfo_ref>>)

\* C20: there is never a catalog named ""; once the aggregation is over,
\* the report has, for every record that was admitted, as many "empty
\* catalogs array" warnings as its catalogs list has empty names, and the
\* record is in all and in every catalog it names with a non-empty name,
\* those after an empty name included; no blob catalogs/ is ever stored.
C20_EmptyCatalogNameSkipped ==
    /\ <<>> \notin DOMAIN catalogs
    /\ <<>> \notin StoredNames
    /\ pc \in {"Pruning", "Writing", "Done"} =>
           \A n \in Loaded :
               Admitted(n) =>
                   LET pkginfo == tuples[n].pkginfo[1]
                       names == CatalogNames(pkginfo)
                   IN  /\ Count(errors,
                                EmptyCatalogsWarning(tuples[n].pkginfo_ref[1]))
                              = Count(names, <<>>)
                       /\ InList(pkginfo, catalogs[s_all])
                       /\ \A name \in Range(names) \ {<<>>} :
                              /\ name \in DOMAIN catalogs
                              /\ InList(pkginfo, catalogs[name])
    /\ pc = "Done" =>
           \A name \in DOMAIN catalogs :
               StoredCatalog(name) = catalogs[name]

\* a call without force that returned, in which a verified record with the
\* catalogs list ['', 't', ''] is in all and in t and left two warnings
C20_Witness ==
    /\ pc = "Done"
    /\ ~options.force /\ ~options.skip_payload_check
    /\ \E n \in Loaded :
           /\ Admitted(n)
           /\ CatalogNames(tuples[n].pkginfo[1]) = <<<<>>, str_t, <<>>>>
           /\ Count(errors, EmptyCatalogsWarning(tuples[n].pkginfo_ref[1])) = 2
           /\ InList(tuples[n].pkginfo[1], StoredCatalog(str_t))
           /\ InList(tuples[n].pkginfo[1], StoredCatalog(s_all))


\* the loaded pkgsinfo blobs that hold this record
BlobsHolding(pkginfo) ==
    {n \in Loaded : tuples[n].pkginfo[1] = pkginfo}

\* C21: once the aggregation is over, no catalog holds a record more often
\* than there are pkgsinfo blobs that hold it: a record is in a catalog at
\* most once per blob, also when its catalogs list repeats a name or names
\* all.
C21_NoRecordTwice ==
    pc \in {"Pruning", "Writing", "Done"} =>
        \A key \in DOMAIN catalogs :
            \A n \in 1..Len(catalogs[key]) :
                Count(catalogs[key], catalogs[key][n])
                    <= Cardinality(BlobsHolding(catalogs[key][n]))

====
